---------------------------- MODULE Spec2Model ----------------------------
(***************************************************************************)
(* A model of the RPS physics simulator (src/sim.js): the seeded RNG, the  *)
(* beats graph, entity integration, the spatial hash grid, the narrow      *)
(* phase, the fixed-step frame loop and the UI handlers that drive them.   *)
(*                                                                         *)
(* Numbers.  JavaScript doubles are modelled in fixed point:               *)
(*   positions and radii   in 1/PX pixels                                  *)
(*   velocities            in 1/VU pixels per second                       *)
(*   times                 in 1/TU seconds                                 *)
(*   the speed scalar      in 1/SU                                         *)
(* 32-bit words of the RNG are records [hi, lo] of 16-bit halves, so that  *)
(* wrap-around arithmetic is exact.                                        *)
(***************************************************************************)
EXTENDS Integers, Sequences, FiniteSets, TLC

(***************************************************************************)
(* Units of the fixed-point representation.                                *)
(***************************************************************************)
PX == 1000
VU == 10
TU == 600
SU == 10

(***************************************************************************)
(* Integer helpers.                                                        *)
(***************************************************************************)
Abs(n) == IF n < 0 THEN -n ELSE n
Min2(a, b) == IF a < b THEN a ELSE b
Max2(a, b) == IF a > b THEN a ELSE b

\* a / b rounded toward zero (b > 0)
TruncDiv(a, b) == IF a >= 0 THEN a \div b ELSE -((-a) \div b)

\* a / b rounded away from zero (b > 0)
AwayDiv(a, b) == IF a >= 0 THEN (a + b - 1) \div b ELSE -(((-a) + b - 1) \div b)

RECURSIVE SqrtSearch(_, _, _)
SqrtSearch(n, lo, hi) ==
  IF lo >= hi THEN lo
  ELSE LET mid == (lo + hi + 1) \div 2
       IN IF mid * mid <= n THEN SqrtSearch(n, mid, hi)
                            ELSE SqrtSearch(n, lo, mid - 1)

\* floor(sqrt(n)) for 0 <= n < 2^31
ISqrt(n) == SqrtSearch(n, 0, 46340)

\* ceil(sqrt(n))
ISqrtUp(n) == LET s == ISqrt(n) IN IF s * s = n THEN s ELSE s + 1

\* The element of a singleton.  Only({F(v) : v \in {e}}) is F(e) with e
\* evaluated once, however often F uses it.
Only(S) == CHOOSE x \in S : TRUE

(***************************************************************************)
(* 32-bit words.                                                           *)
(***************************************************************************)
H16 == 65536

Word(hi, lo) == [hi |-> hi, lo |-> lo]

\* a ^ b and a | b on n bits
RECURSIVE Xor16(_, _, _)
Xor16(a, b, n) ==
  IF n = 0 THEN 0
  ELSE ((a + b) % 2) + 2 * Xor16(a \div 2, b \div 2, n - 1)

RECURSIVE Or16(_, _, _)
Or16(a, b, n) ==
  IF n = 0 THEN 0
  ELSE (IF a % 2 = 1 \/ b % 2 = 1 THEN 1 ELSE 0) + 2 * Or16(a \div 2, b \div 2, n - 1)

XorW(a, b) ==
  Only({Word(Xor16(x.hi, y.hi, 16), Xor16(x.lo, y.lo, 16)) : x \in {a}, y \in {b}})
OrW(a, b) ==
  Only({Word(Or16(x.hi, y.hi, 16), Or16(x.lo, y.lo, 16)) : x \in {a}, y \in {b}})

AddW(a, b) ==
  Only({Word((x.hi + y.hi + (x.lo + y.lo) \div H16) % H16, (x.lo + y.lo) % H16) :
          x \in {a}, y \in {b}})

\* x * y mod 2^16 for 16-bit x, y, without leaving 31 bits
MulLo16(x, y) == ((x % 256) * y + (((x \div 256) * y) % 256) * 256) % H16

\* Math.imul: the low 32 bits of the product
ImulW(a, b) ==
  Only({LET q == (x.lo \div 256) * y.lo
            s == (x.lo % 256) * y.lo
            m == (q % 256) * 256 + s
            plo == m % H16
            phi == (q \div 256 + m \div H16) % H16
        IN Word((phi + MulLo16(x.hi, y.lo) + MulLo16(x.lo, y.hi)) % H16, plo) :
          x \in {a}, y \in {b}})

RECURSIVE Pow2(_)
Pow2(k) == IF k = 0 THEN 1 ELSE 2 * Pow2(k - 1)

\* w >>> k for 0 < k < 16
ShrW(w, k) ==
  Only({Word(x.hi \div Pow2(k), (x.lo \div Pow2(k)) + (x.hi % Pow2(k)) * Pow2(16 - k)) :
          x \in {w}})

(***************************************************************************)
(* RNG: xfnv1a string hash and the mulberry32 stream.  A seed string is a  *)
(* sequence of UTF-16 code units.                                          *)
(***************************************************************************)
FnvOffset == Word(33052, 40389)    \* 0x811c9dc5
FnvPrime == Word(256, 403)         \* 0x01000193
MulberryInc == Word(27947, 31221)  \* 0x6D2B79F5

\* the loop of xfnv1a over the characters lo..hi of str in order, from hash h;
\* the range is split in two to keep the evaluation shallow
RECURSIVE FnvLoop(_, _, _, _)
FnvLoop(str, lo, hi, h) ==
  IF lo > hi THEN h
  ELSE IF lo = hi THEN ImulW(XorW(h, Word(0, str[lo])), FnvPrime)
  ELSE Only({FnvLoop(str, ((lo + hi) \div 2) + 1, hi, h1) :
               h1 \in {FnvLoop(str, lo, (lo + hi) \div 2, h)}})

xfnv1a(str) == FnvLoop(str, 1, Len(str), FnvOffset)

\* One call of the closure mulberry32 returns: the new internal state a and
\* the 32-bit numerator u of the output u / 2^32.
MulberryMix1(t) ==
  Only({ImulW(XorW(x, ShrW(x, 15)), OrW(x, Word(0, 1))) : x \in {t}})
MulberryMix2(t) ==
  Only({XorW(x, AddW(x, ImulW(XorW(x, ShrW(x, 7)), OrW(x, Word(0, 61))))) : x \in {t}})
MulberryOut(t) ==
  Only({XorW(x, ShrW(x, 14)) : x \in {t}})

mulberry32(a) ==
  Only({[a |-> a1, u |-> MulberryOut(MulberryMix2(MulberryMix1(a1)))] :
          a1 \in {AddW(a, MulberryInc)}})

(***************************************************************************)
(* Types and the beats graph.  An entity's type t is an index into         *)
(* TypeRegistry (1-based here, 0-based in the source).                     *)
(***************************************************************************)
TypeRegistry == <<"circle", "square", "triangle", "lizard", "spock">>
TypeIds == {TypeRegistry[i] : i \in 1..Len(TypeRegistry)}
NoWinner == "null"

\* the rules of the README, by shape: Rock crushes Scissors and Lizard, Paper
\* covers Rock and disproves Spock, Scissors cut Paper and decapitate Lizard,
\* Lizard eats Paper and poisons Spock, Spock smashes Scissors and vaporizes
\* Rock; Rock is the circle, Paper the square, Scissors the triangle
ReadmeRules ==
  {<<"circle", "triangle">>, <<"circle", "lizard">>,
   <<"square", "circle">>, <<"square", "spock">>,
   <<"triangle", "square">>, <<"triangle", "lizard">>,
   <<"lizard", "square">>, <<"lizard", "spock">>,
   <<"spock", "triangle">>, <<"spock", "circle">>}

\* a beats graph in which the circle also beats the square
beats_mutual ==
  [id \in TypeIds |->
     CASE id = "circle"   -> {"triangle", "lizard", "square"}
       [] id = "square"   -> {"circle", "spock"}
       [] id = "triangle" -> {"square", "lizard"}
       [] id = "lizard"   -> {"spock", "square"}
       [] id = "spock"    -> {"triangle", "circle"}]

beats ==
  [id \in TypeIds |->
     CASE id = "circle"   -> {"triangle", "lizard"}
       [] id = "square"   -> {"circle", "spock"}
       [] id = "triangle" -> {"square", "lizard"}
       [] id = "lizard"   -> {"spock", "square"}
       [] id = "spock"    -> {"triangle", "circle"}]

\* Object.entries(beats): the rules in the order validateRules visits them
beatsEntries ==
  <<[k |-> "circle",   outs |-> <<"triangle", "lizard">>],
    [k |-> "square",   outs |-> <<"circle", "spock">>],
    [k |-> "triangle", outs |-> <<"square", "lizard">>],
    [k |-> "lizard",   outs |-> <<"spock", "square">>],
    [k |-> "spock",    outs |-> <<"triangle", "circle">>]>>

NoError == "ok"

\* beatsMap.get(b)?.has(a) on the rules g
MapHas(g, b, a) ==
  \E i \in 1..Len(g) : g[i].k = b /\ \E j \in 1..Len(g[i].outs) : g[i].outs[j] = a

\* the check of outs.forEach without the conflict test
RECURSIVE CheckOuts_noConflict(_, _, _, _)
CheckOuts_noConflict(g, a, outs, j) ==
  IF j > Len(outs) THEN NoError
  ELSE IF outs[j] \notin TypeIds THEN "unknown target"
  ELSE IF outs[j] = a THEN "beats itself"
  ELSE CheckOuts_noConflict(g, a, outs, j + 1)

\* outs.forEach(b => ...) of validateRules from target j on: the first error
RECURSIVE CheckOuts(_, _, _, _)
CheckOuts(g, a, outs, j) ==
  IF j > Len(outs) THEN NoError
  ELSE IF outs[j] \notin TypeIds THEN "unknown target"
  ELSE IF outs[j] = a THEN "beats itself"
  ELSE IF MapHas(g, outs[j], a) THEN "conflict"
  ELSE CheckOuts(g, a, outs, j + 1)

\* for (const [a, outs] of beatsMap) of validateRules from rule i on
RECURSIVE CheckRules(_, _)
CheckRules(g, i) ==
  IF i > Len(g) THEN NoError
  ELSE IF g[i].k \notin TypeIds THEN "unknown type"
  ELSE Only({IF e # NoError THEN e ELSE CheckRules(g, i + 1) :
               e \in {CheckOuts(g, g[i].k, g[i].outs, 1)}})

\* validateRules() on the rules g: NoError, or the error it throws
validateRules(g) == CheckRules(g, 1)

\* beatsMap.get(id)?.has(x): false when id is no key of the map
BeatsHas(id, x) == id \in DOMAIN beats /\ x \in beats[id]

\* winnerOf returning the other id of a decided pair
winnerOf_loser(aId, bId) ==
  IF aId = bId THEN NoWinner
  ELSE IF BeatsHas(aId, bId) THEN bId
  ELSE IF BeatsHas(bId, aId) THEN aId
  ELSE NoWinner

winnerOf(aId, bId) ==
  IF aId = bId THEN NoWinner
  ELSE IF BeatsHas(aId, bId) THEN aId
  ELSE IF BeatsHas(bId, aId) THEN bId
  ELSE NoWinner

(***************************************************************************)
(* Physics constants.                                                      *)
(***************************************************************************)
REST == 1          \* restitution
VMAX == 600        \* px/s
EPS == 1           \* positional slop 1e-3 px, in 1/PX px
DistFloor == 1     \* the distance substituted for an exact overlap
FIXED_DT == 10     \* 1/60 s, in 1/TU s
MAX_FRAME_DT == 60 \* the 0.1 s clamp of a frame's delta, in 1/TU s

\* the arena (canvas client size), in px
ArenaW == 64
ArenaH == 48
VIEW_W == ArenaW * PX
VIEW_H == ArenaH * PX

(***************************************************************************)
(* Entity.                                                                 *)
(***************************************************************************)
Entity(id, typeIndex, x, y, r, vx, vy) ==
  [id |-> id, t |-> typeIndex, x |-> x, y |-> y, r |-> r, vx |-> vx, vy |-> vy,
   mass |-> (r \div PX) * (r \div PX)]

\* the JavaScript remainder n % m (sign of the dividend), m > 0
JsRem(n, m) == IF n >= 0 THEN n % m ELSE -((-n) % m)

\* mod as the bare remainder n % m: negative for negative n
mod_remainder(n, m) == JsRem(n, m)

mod(n, m) == JsRem(JsRem(n, m) + m, m)

\* VMAX in velocity units
VCap == VMAX * VU

\* clampVel leaving the velocity as it is
clampVel_off(e) == e

clampVel(e) ==
  Only({IF c.vx * c.vx + c.vy * c.vy > VCap * VCap
        THEN Only({[c EXCEPT !.vx = TruncDiv(c.vx * VCap, root),
                             !.vy = TruncDiv(c.vy * VCap, root)] :
                     root \in {ISqrtUp(c.vx * c.vx + c.vy * c.vy)}})
        ELSE c :
          c \in {e}})

\* the displacement v * dt * spd, in 1/PX px
Advance(v, dt, spd) == TruncDiv(v * dt * spd, (VU * TU * SU) \div PX)

\* Entity.update
\* the four wall tests of Entity.update, in order
BounceLeft(e) ==
  Only({IF m.x - m.r < 0 THEN [m EXCEPT !.x = m.r, !.vx = Abs(m.vx)] ELSE m : m \in {e}})
BounceRight(e, w) ==
  Only({IF m.x + m.r > w THEN [m EXCEPT !.x = w - m.r, !.vx = -Abs(m.vx)] ELSE m :
          m \in {e}})
BounceTop(e) ==
  Only({IF m.y - m.r < 0 THEN [m EXCEPT !.y = m.r, !.vy = Abs(m.vy)] ELSE m : m \in {e}})
BounceBottom(e, h) ==
  Only({IF m.y + m.r > h THEN [m EXCEPT !.y = h - m.r, !.vy = -Abs(m.vy)] ELSE m :
          m \in {e}})

\* Entity.update
update(e, w, h, dt, spd, wrap) ==
  Only({clampVel(IF wrap THEN [moved EXCEPT !.x = mod(moved.x, w), !.y = mod(moved.y, h)]
                 ELSE BounceBottom(BounceTop(BounceRight(BounceLeft(moved), w)), h)) :
          moved \in {[e EXCEPT !.x = e.x + Advance(e.vx, dt, spd),
                               !.y = e.y + Advance(e.vy, dt, spd)]}})

(***************************************************************************)
(* The spatial hash grid.  A grid is the Map of the source: a sequence of  *)
(* [key, bucket] in key insertion order; a bucket is the sequence of the   *)
(* entities pushed into it, each a reference (an index into entities).     *)
(***************************************************************************)
CeilDiv(a, b) == (a + b - 1) \div b

clampIdx(ix, max) == Max2(0, Min2(ix, max))

\* computeGridDims
GridDim(view, cell) == Max2(1, CeilDiv(view, cell))

\* updateCellSize: CELL for the size slider at r px
CellFor(r) == Max2(24 * PX, r * 2 + 6 * PX)

RECURSIVE KeyPos(_, _, _)
KeyPos(grid, key, i) ==
  IF i > Len(grid) THEN 0
  ELSE IF grid[i].key = key THEN i
  ELSE KeyPos(grid, key, i + 1)

\* grid.get(k), creating the bucket when missing, then b.push(e)
GridPush(grid, key, e) ==
  LET p == KeyPos(grid, key, 1)
  IN IF p = 0 THEN Append(grid, [key |-> key, bucket |-> <<e>>])
     ELSE [grid EXCEPT ![p].bucket = Append(@, e)]

RECURSIVE InsertCells(_, _, _, _, _, _, _, _, _, _)
InsertCells(grid, e, ix, iy, minx, maxx, maxy, gw, gh, wrap) ==
  IF iy > maxy THEN grid
  ELSE IF ix > maxx
       THEN InsertCells(grid, e, minx, iy + 1, minx, maxx, maxy, gw, gh, wrap)
  ELSE LET gx == IF wrap THEN mod(ix, gw) ELSE clampIdx(ix, gw - 1)
           gy == IF wrap THEN mod(iy, gh) ELSE clampIdx(iy, gh - 1)
       IN Only({InsertCells(g2, e, ix + 1, iy, minx, maxx, maxy, gw, gh, wrap) :
                  g2 \in {GridPush(grid, <<gx, gy>>, e)}})

\* an insertIntoGrid that pushes the entity into the cell of its centre only
insertIntoGrid_centre(grid, ents, i, cell, gw, gh, wrap) ==
  Only({InsertCells(grid, i, cx, cy, cx, cx, cy, gw, gh, wrap) :
          cx \in {ents[i].x \div cell},
          cy \in {ents[i].y \div cell}})

\* insertIntoGrid for the entity at index i of ents
insertIntoGrid(grid, ents, i, cell, gw, gh, wrap) ==
  Only({InsertCells(grid, i, minx, miny, minx, maxx, maxy, gw, gh, wrap) :
          minx \in {(ents[i].x - ents[i].r) \div cell},
          maxx \in {(ents[i].x + ents[i].r) \div cell},
          miny \in {(ents[i].y - ents[i].r) \div cell},
          maxy \in {(ents[i].y + ents[i].r) \div cell}})

RECURSIVE BuildGrid(_, _, _, _, _, _, _)
BuildGrid(grid, ents, i, cell, gw, gh, wrap) ==
  IF i > Len(ents) THEN grid
  ELSE Only({BuildGrid(g2, ents, i + 1, cell, gw, gh, wrap) :
               g2 \in {insertIntoGrid(grid, ents, i, cell, gw, gh, wrap)}})

(***************************************************************************)
(* Narrow phase.                                                           *)
(***************************************************************************)
\* periodicDelta along one axis: b - a, the short way round when wrapping
periodicDelta(a, b, view, wrap) ==
  LET d == b - a
  IN IF wrap THEN (IF 2 * d > view THEN d - view
                   ELSE IF 2 * d < -view THEN d + view ELSE d)
     ELSE d

\* dist2 > minDist * minDist, the test that rejects a pair
Apart(dx, dy, minDist) ==
  \/ Abs(dx) > minDist
  \/ Abs(dy) > minDist
  \/ dx * dx + dy * dy > minDist * minDist

\* whether narrowPhase(ents[i], ents[j]) passes the overlap test
Overlapping(ents, i, j, w, h, wrap) ==
  LET a == ents[i]
      b == ents[j]
  IN ~Apart(periodicDelta(a.x, b.x, w, wrap), periodicDelta(a.y, b.y, h, wrap),
            a.r + b.r)

\* a conversion that hands the loser's type to the winner
Converted_toLoser(a, b) ==
  LET aId == TypeRegistry[a.t]
      bId == TypeRegistry[b.t]
      winId == winnerOf(aId, bId)
  IN [a |-> IF winId # NoWinner /\ winId = aId THEN b.t ELSE a.t,
      b |-> IF winId # NoWinner /\ winId # aId THEN a.t ELSE b.t]

\* a conversion that gives the loser the type after the winner's in TypeRegistry
Converted_fresh(a, b) ==
  LET aId == TypeRegistry[a.t]
      bId == TypeRegistry[b.t]
      winId == winnerOf(aId, bId)
  IN [a |-> IF winId # NoWinner /\ winId # aId THEN (b.t % Len(TypeRegistry)) + 1 ELSE a.t,
      b |-> IF winId # NoWinner /\ winId = aId THEN (a.t % Len(TypeRegistry)) + 1 ELSE b.t]

\* the type ids after the conversion of narrowPhase
Converted(a, b) ==
  LET aId == TypeRegistry[a.t]
      bId == TypeRegistry[b.t]
      winId == winnerOf(aId, bId)
  IN [a |-> IF winId # NoWinner /\ winId # aId THEN b.t ELSE a.t,
      b |-> IF winId # NoWinner /\ winId = aId THEN a.t ELSE b.t]

\* the positional correction and velocity response of narrowPhase for the
\* overlapping entities a, b at offset (dx, dy) and distance dist
Respond(a, b, dx, dy, dist, w, h, wrap) ==
  Only({Only({[a |-> clampVel([a EXCEPT !.t = Converted(a, b).a,
                                        !.x = IF wrap THEN mod(a.x - sx, w) ELSE a.x - sx,
                                        !.y = IF wrap THEN mod(a.y - sy, h) ELSE a.y - sy,
                                        !.vx = a.vx + TruncDiv(dvA * dx, dist),
                                        !.vy = a.vy + TruncDiv(dvA * dy, dist)]),
               b |-> clampVel([b EXCEPT !.t = Converted(a, b).b,
                                        !.x = IF wrap THEN mod(b.x + sx, w) ELSE b.x + sx,
                                        !.y = IF wrap THEN mod(b.y + sy, h) ELSE b.y + sy,
                                        !.vx = b.vx + TruncDiv(dvB * dx, dist),
                                        !.vy = b.vy + TruncDiv(dvB * dy, dist)])] :
                dvA \in {(TruncDiv(va * (a.mass - b.mass) + 2 * b.mass * vb,
                                   a.mass + b.mass) - va) * REST},
                dvB \in {(TruncDiv(vb * (b.mass - a.mass) + 2 * a.mass * va,
                                   a.mass + b.mass) - vb) * REST}}) :
          sx \in {AwayDiv(dx * Max2(0, (a.r + b.r - dist) + EPS), 2 * dist)},
          sy \in {AwayDiv(dy * Max2(0, (a.r + b.r - dist) + EPS), 2 * dist)},
          va \in {TruncDiv(a.vx * dx + a.vy * dy, dist)},
          vb \in {TruncDiv(b.vx * dx + b.vy * dy, dist)}})

\* narrowPhase(ents[i], ents[j]): the entities after it.  With dist2 = 0 the
\* source divides by 0.0001 and the normal is 0.
narrowPhase(ents, i, j, w, h, wrap) ==
  IF ~Overlapping(ents, i, j, w, h, wrap) THEN ents
  ELSE Only({Only({Only({[ents EXCEPT ![i] = out.a, ![j] = out.b] :
                           out \in {Respond(ents[i], ents[j], dx, dy, dist, w, h, wrap)}}) :
                     dist \in {IF dx * dx + dy * dy = 0 THEN DistFloor
                               ELSE ISqrt(dx * dx + dy * dy)}}) :
               dx \in {periodicDelta(ents[i].x, ents[j].x, w, wrap)},
               dy \in {periodicDelta(ents[i].y, ents[j].y, h, wrap)}})

(***************************************************************************)
(* Broad phase: the pairs handleCollisionsGrid passes to narrowPhase, in   *)
(* the order of its loops.  The order depends only on the grid and on the  *)
(* ids, which no narrowPhase call changes.                                 *)
(***************************************************************************)
\* for (const b of nb): the pairs <<a, b>> that reach narrowPhase
RECURSIVE PairsWith(_, _, _, _)
PairsWith(ents, a, nb, k) ==
  IF k > Len(nb) THEN <<>>
  ELSE LET b == nb[k]
       IN (IF a = b \/ ents[a].id > ents[b].id THEN <<>> ELSE << <<a, b>> >>)
          \o PairsWith(ents, a, nb, k + 1)

\* for (let i = 0; i < bucket.length; i++)
RECURSIVE PairsOfBucket(_, _, _, _)
PairsOfBucket(ents, bucket, nb, i) ==
  IF i > Len(bucket) THEN <<>>
  ELSE PairsWith(ents, bucket[i], nb, 1) \o PairsOfBucket(ents, bucket, nb, i + 1)

\* the body of the dy / dx loops for one neighbour offset
PairsAt(ents, grid, g, dx, dy, gw, gh, wrap) ==
  LET cx == grid[g].key[1]
      cy == grid[g].key[2]
      nx == IF wrap THEN mod(cx + dx, gw) ELSE cx + dx
      ny == IF wrap THEN mod(cy + dy, gh) ELSE cy + dy
      p == KeyPos(grid, <<nx, ny>>, 1)
  IN IF nx < 0 \/ ny < 0 \/ nx >= gw \/ ny >= gh \/ p = 0 THEN <<>>
     ELSE PairsOfBucket(ents, grid[g].bucket, grid[p].bucket, 1)

\* for (let dy = -1; dy <= 1; dy++) for (let dx = -1; dx <= 1; dx++)
PairsAround(ents, grid, g, gw, gh, wrap) ==
  PairsAt(ents, grid, g, -1, -1, gw, gh, wrap)
  \o PairsAt(ents, grid, g, 0, -1, gw, gh, wrap)
  \o PairsAt(ents, grid, g, 1, -1, gw, gh, wrap)
  \o PairsAt(ents, grid, g, -1, 0, gw, gh, wrap)
  \o PairsAt(ents, grid, g, 0, 0, gw, gh, wrap)
  \o PairsAt(ents, grid, g, 1, 0, gw, gh, wrap)
  \o PairsAt(ents, grid, g, -1, 1, gw, gh, wrap)
  \o PairsAt(ents, grid, g, 0, 1, gw, gh, wrap)
  \o PairsAt(ents, grid, g, 1, 1, gw, gh, wrap)

\* for (const [k, bucket] of grid)
RECURSIVE Candidates(_, _, _, _, _, _)
Candidates(ents, grid, g, gw, gh, wrap) ==
  IF g > Len(grid) THEN <<>>
  ELSE PairsAround(ents, grid, g, gw, gh, wrap)
       \o Candidates(ents, grid, g + 1, gw, gh, wrap)

\* one narrowPhase call on the running result [ents, resolved]
ResolveOne(acc, pair, w, h, wrap) ==
  [ents |-> narrowPhase(acc.ents, pair[1], pair[2], w, h, wrap),
   resolved |-> IF Overlapping(acc.ents, pair[1], pair[2], w, h, wrap)
                THEN Append(acc.resolved, <<acc.ents[pair[1]].id, acc.ents[pair[2]].id>>)
                ELSE acc.resolved]

\* the narrowPhase calls lo..hi of the pair list, in order (the list is split
\* in halves only to keep the evaluation shallow)
RECURSIVE ResolveRange(_, _, _, _, _, _, _)
ResolveRange(acc, pairs, lo, hi, w, h, wrap) ==
  IF lo > hi THEN acc
  ELSE IF lo = hi THEN ResolveOne(acc, pairs[lo], w, h, wrap)
  ELSE Only({ResolveRange(half, pairs, ((lo + hi) \div 2) + 1, hi, w, h, wrap) :
               half \in {ResolveRange(acc, pairs, lo, (lo + hi) \div 2, w, h, wrap)}})

\* the narrowPhase calls in order: the entities afterwards and the calls that
\* passed the overlap test
ResolveAll(ents, pairs, w, h, wrap) ==
  ResolveRange([ents |-> ents, resolved |-> <<>>], pairs, 1, Len(pairs), w, h, wrap)

\* the pairs of the grid built from ents
CandidatesOf(ents, cell, gw, gh, wrap) ==
  Only({Candidates(ents, grid, 1, gw, gh, wrap) :
          grid \in {BuildGrid(<<>>, ents, 1, cell, gw, gh, wrap)}})

\* handleCollisionsGrid: entities afterwards, the ids of the pairs tested and
\* of the pairs resolved, in order
handleCollisionsGrid(ents, cell, gw, gh, w, h, wrap) ==
  Only({Only({[ents |-> out.ents,
               tested |-> [k \in 1..Len(pairs) |->
                             <<ents[pairs[k][1]].id, ents[pairs[k][2]].id>>],
               resolved |-> out.resolved] :
                out \in {ResolveAll(ents, pairs, w, h, wrap)}}) :
          pairs \in {CandidatesOf(ents, cell, gw, gh, wrap)}})

(***************************************************************************)
(* Stepping.                                                               *)
(***************************************************************************)
\* a step whose update loop drops the last entity
UpdateAll_dropLast(ents, w, h, dt, spd, wrap) ==
  [i \in 1..(Len(ents) - 1) |-> update(ents[i], w, h, dt, spd, wrap)]

UpdateAll(ents, w, h, dt, spd, wrap) ==
  [i \in 1..Len(ents) |-> update(ents[i], w, h, dt, spd, wrap)]

\* step(dt) with the speed scalar and wall mode read from the controls
step(ents, dt, spd, wrap, cell, gw, gh) ==
  Only({handleCollisionsGrid(moved, cell, gw, gh, VIEW_W, VIEW_H, wrap) :
          moved \in {UpdateAll(ents, VIEW_W, VIEW_H, dt, spd, wrap)}})

(***************************************************************************)
(* Spawning.                                                               *)
(***************************************************************************)
MAX_ENTITIES_PER_TYPE == 500
MAX_SEED_LEN == 128
MAX_TOTAL_ENTITIES == 1200
maxTries == 50

\* rng() * (max - min) + min for the output u / 2^32, from the top 12 bits of u
rand(u, min, max) == min + ((u.hi \div 16) * (max - min)) \div 4096

\* cos and sin, in 1/1000, of the 16 directions (k + 1/2) * 2 pi / 16 that the
\* top 4 bits k of rng() select
CosQ == <<981, 831, 556, 195>>
Cos16(k) ==
  CASE k \div 4 = 0 -> CosQ[k + 1]
    [] k \div 4 = 1 -> -CosQ[8 - k]
    [] k \div 4 = 2 -> -CosQ[k - 7]
    [] k \div 4 = 3 -> CosQ[16 - k]
Sin16(k) == Cos16((k + 12) % 16)

\* randVel from its two draws: the angle, then the magnitude (0.8 .. 2.0) * 60 px/s
randVel(uAngle, uMag) ==
  Only({[vx |-> TruncDiv(Cos16(k) * mag, 1000), vy |-> TruncDiv(Sin16(k) * mag, 1000)] :
          k \in {uAngle.hi \div 4096}, mag \in {rand(uMag, 48 * VU, 120 * VU)}})

RECURSIVE overlapsAnyFrom(_, _, _, _, _)
overlapsAnyFrom(ents, i, x, y, r) ==
  IF i > Len(ents) THEN FALSE
  ELSE LET e == ents[i]
           dx == x - e.x
           dy == y - e.y
       IN IF Abs(dx) < r + e.r /\ Abs(dy) < r + e.r
             /\ dx * dx + dy * dy < (r + e.r) * (r + e.r)
          THEN TRUE
          ELSE overlapsAnyFrom(ents, i + 1, x, y, r)

overlapsAny(ents, x, y, r) == overlapsAnyFrom(ents, 1, x, y, r)

\* the generator state after k more calls of rng(): mulberry32 only adds
\* MulberryInc to its state at each call
Skip(a, k) == AddW(a, ImulW(Word(0, k), MulberryInc))

\* the k-th next value of rng() from state a
Draw(a, k) == mulberry32(Skip(a, k - 1)).u

\* the position drawn in pass number t (from 0) of the do / while of spawn
PlaceTry(a, radius, t) ==
  [x |-> rand(Draw(a, 2 * t + 1), radius + 2 * PX, VIEW_W - radius - 2 * PX),
   y |-> rand(Draw(a, 2 * t + 2), radius + 2 * PX, VIEW_H - radius - 2 * PX)]

\* the pass at which the do / while of spawn stops
RECURSIVE PlaceTries(_, _, _, _)
PlaceTries(a, ents, radius, t) ==
  IF t + 1 < maxTries
     /\ \E p \in {PlaceTry(a, radius, t)} : overlapsAny(ents, p.x, p.y, radius)
  THEN PlaceTries(a, ents, radius, t + 1)
  ELSE t

\* the do / while of spawn: the position chosen and the RNG state afterwards
Place(a, ents, radius) ==
  Only({Only({Only({[a |-> Skip(a0, 2 * (t + 1)), x |-> p.x, y |-> p.y] :
                      p \in {PlaceTry(a0, radius, t)}}) :
                t \in {PlaceTries(a0, ents, radius, 0)}}) :
          a0 \in {a}})

\* spawn(typeIndex, n, radius) on the world w = [ents, nextId, a]: two draws
\* for the velocity, then the placement
SpawnOne(w, typeIndex, radius) ==
  Only({[ents |-> Append(w.ents, Entity(w.nextId, typeIndex, at.x, at.y,
                                        radius, v.vx, v.vy)),
         nextId |-> w.nextId + 1,
         a |-> at.a] :
          v \in {randVel(Draw(w.a, 1), Draw(w.a, 2))},
          at \in {Place(Skip(w.a, 2), w.ents, radius)}})

RECURSIVE SpawnLoop(_, _, _, _)
SpawnLoop(w, typeIndex, n, radius) ==
  IF n <= 0 THEN w
  ELSE Only({SpawnLoop(w2, typeIndex, n - 1, radius) :
               w2 \in {SpawnOne(w, typeIndex, radius)}})

\* a spawn loop that runs n times whatever n is
SpawnCount_uncapped(n) == n

\* n = Math.min(n, MAX_ENTITIES_PER_TYPE): the passes of the loop of spawn
SpawnCount(n) == Min2(n, MAX_ENTITIES_PER_TYPE)

spawn(w, typeIndex, n, radius) == SpawnLoop(w, typeIndex, SpawnCount(n), radius)

\* clampInput(el) for an input holding the integer v
clampInput(v) == Max2(0, Min2(v, MAX_ENTITIES_PER_TYPE))

\* want of initFromControls for an input holding v
Want(v) == Min2(v, MAX_ENTITIES_PER_TYPE)

\* can that ignores what is already spawned
Can_noBudget(want, total) == want

\* can of initFromControls
Can(want, total) == Max2(0, Min2(want, MAX_TOTAL_ENTITIES - total))

\* the forEach of initFromControls without the entities: what spawn is asked
\* for per type, and the types a "Capped" toast names
RECURSIVE BudgetFrom(_, _, _, _, _)
BudgetFrom(inputs, i, total, cans, capped) ==
  IF i > Len(TypeRegistry) THEN [can |-> cans, capped |-> capped]
  ELSE Only({BudgetFrom(inputs, i + 1, total + can, Append(cans, can),
                        IF can < Want(inputs[i]) THEN capped \cup {TypeRegistry[i]}
                        ELSE capped) :
               can \in {Can(Want(inputs[i]), total)}})

Budget(inputs) == BudgetFrom(inputs, 1, 0, <<>>, {})

\* a seed kept whole, whatever its length
SafeSeed_whole(str) == str

\* String(str).slice(0, MAX_SEED_LEN)
SafeSeed(str) == SubSeq(str, 1, Min2(Len(str), MAX_SEED_LEN))

\* the TypeRegistry.forEach of initFromControls
RECURSIVE SpawnTypes(_, _, _, _, _, _)
SpawnTypes(w, i, inputs, radius, total, capped) ==
  IF i > Len(TypeRegistry) THEN [w |-> w, capped |-> capped]
  ELSE LET want == Want(inputs[i])
           can == Can(want, total)
       IN Only({SpawnTypes(w2, i + 1, inputs, radius, total + can,
                           IF can < want THEN capped \cup {TypeRegistry[i]} ELSE capped) :
                  w2 \in {spawn(w, i, can, radius)}})

\* initFromControls: the world it builds and the notices it issues
initFromControls(seedStr, inputs, sizePx) ==
  Only({[ents |-> out.w.ents, nextId |-> out.w.nextId, a |-> out.w.a,
         seed |-> SafeSeed(seedStr),
         notices |-> {<<"capped", t>> : t \in out.capped}
                     \cup (IF Len(SafeSeed(seedStr)) # Len(seedStr)
                           THEN {<<"truncated">>} ELSE {})] :
          out \in {Only({SpawnTypes(w0, 1, inputs, sizePx * PX, 0, {}) :
                           w0 \in {[ents |-> <<>>, nextId |-> 1,
                                    a |-> xfnv1a(SafeSeed(seedStr))]}})}})

computeCounts(ents) ==
  [t \in 1..Len(TypeRegistry) |-> Cardinality({i \in 1..Len(ents) : ents[i].t = t})]

typesPresent(ents) == Cardinality({ents[i].t : i \in 1..Len(ents)})

(***************************************************************************)
(* Bounds of the model and the inputs it draws.                            *)
(***************************************************************************)
MaxSteps == 6      \* steps executed since the last initFromControls
MaxEdits == 1      \* control changes (size, speed, wall mode, seed) per run
NumSeeds == 2      \* seed strings "rps-1" .. "rps-<NumSeeds>" of the UI model
NumStepSeeds == 6  \* seed strings of the stepping model

\* the decimal digits of n as UTF-16 code units
RECURSIVE Digits(_)
Digits(n) == IF n < 10 THEN <<48 + n>> ELSE Digits(n \div 10) \o <<48 + (n % 10)>>

\* the seed string "rps-<n>"
SeedOf(n) == <<114, 112, 115, 45>> \o Digits(n)

Seeds == {SeedOf(n) : n \in 1..NumSeeds}
Sizes == {8, 10}              \* the size slider, px
Speeds == {1 * SU, 2 * SU}    \* the speed slider
WallModes == {"bounce", "wrap"}
Deltas == {5, 10, 70}     \* wall-clock gaps between frames, in 1/TU s
Pauses == {70}           \* wall-clock time spent paused, in 1/TU s
NULL == 0

\* per-type counts typed into the inputs
CountConfigs == {<<2, 1, 0, 0, 0>>, <<1, 1, 1, 0, 0>>, <<0, 0, 0, 2, 0>>}

StepSeeds == {SeedOf(n) : n \in 1..NumStepSeeds}

\* initFromControls on the inputs the models draw, tabulated: it is a
\* function of the controls it reads
Spawned ==
  {[c |-> c, w |-> initFromControls(c[1], c[2], c[3])] :
     c \in (Seeds \cup StepSeeds) \X CountConfigs \X Sizes}

SpawnOf(seedStr, inputs, sizePx) ==
  IF \E p \in Spawned : p.c = <<seedStr, inputs, sizePx>>
  THEN (CHOOSE p \in Spawned : p.c = <<seedStr, inputs, sizePx>>).w
  ELSE initFromControls(seedStr, inputs, sizePx)

VARIABLES
  entities,     \* the entity list
  ENTITY_ID,    \* the next entity id
  rngSeedStr,   \* the effective seed
  rng,          \* the internal state a of the closure rng
  running, animId, accumulator,
  pending,      \* the frame callbacks requested and neither run nor cancelled
  seedInput, typeInputs, size, speed, wallMode,   \* the controls
  CELL, GW, GH, WRAP_ACTIVE,
  notices,      \* the toasts of the last handler
  called,       \* the functions the last handler called
  tested,       \* the pairs the last handleCollisionsGrid passed to narrowPhase
  resolved,     \* those that passed narrowPhase's overlap test
  stepsDone,    \* steps executed since the last initFromControls
  initCfg,      \* the controls read by the last initFromControls
  runCfg,       \* the controls read by the steps since then
  framed,       \* the frame() calls of the last handler: delta, accumulator before, steps run
  edits,        \* control changes so far
  probe,        \* the function last applied on its own, with its arguments
  answer        \* what it returned

controls == <<seedInput, typeInputs, size, speed, wallMode>>
gridVars == <<CELL, GW, GH>>
world == <<entities, ENTITY_ID, rngSeedStr, rng, accumulator, WRAP_ACTIVE>>
loop == <<running, animId, pending>>
ghosts == <<notices, called, tested, resolved, stepsDone, initCfg, runCfg, framed, edits>>
vars == <<world, loop, controls, gridVars, ghosts, probe, answer>>

NoRun == [spd |-> 0, wrap |-> FALSE, cell |-> 0, n |-> 0]
NoInit == [seed |-> <<>>, inputs |-> <<>>, size |-> 0]

(***************************************************************************)
(* The handlers as functions of a state record.  A state record st holds   *)
(* every variable a handler may change.                                    *)
(***************************************************************************)
State ==
  [entities |-> entities, ENTITY_ID |-> ENTITY_ID, rngSeedStr |-> rngSeedStr,
   rng |-> rng, running |-> running, animId |-> animId, accumulator |-> accumulator,
   pending |-> pending, WRAP_ACTIVE |-> WRAP_ACTIVE, notices |-> {}, called |-> {},
   tested |-> tested, resolved |-> resolved, stepsDone |-> stepsDone,
   initCfg |-> initCfg, runCfg |-> runCfg, framed |-> <<>>]

\* a cancelAnimationFrame that leaves the request in place
Cancel_none(st) == st

\* cancelAnimationFrame(animId) when animId is not null
Cancel(st) == IF st.animId # NULL THEN [st EXCEPT !.pending = @ \ {st.animId}] ELSE st

\* requestAnimationFrame: a handle no live request holds
NewHandle(st) ==
  CHOOSE h \in 1..(Cardinality(st.pending) + 2) :
    /\ h \notin st.pending /\ h # st.animId
    /\ \A g \in 1..(h - 1) : g \in st.pending \/ g = st.animId

\* updateStatsAndCharts without the win detection
updateStatsAndCharts_noWin(st) == st

\* a win detection that fires while two types are left
updateStatsAndCharts_early(st) ==
  IF st.running /\ Len(st.entities) > 0 /\ typesPresent(st.entities) <= 2
  THEN [Cancel(st) EXCEPT !.running = FALSE, !.animId = NULL,
                          !.notices = st.notices \cup {<<"wins">>},
                          !.called = st.called \cup {"win"}]
  ELSE st

\* the win detection of updateStatsAndCharts
updateStatsAndCharts(st) ==
  IF st.running /\ Len(st.entities) > 0 /\ typesPresent(st.entities) = 1
  THEN [Cancel(st) EXCEPT !.running = FALSE, !.animId = NULL,
                          !.notices = st.notices \cup {<<"wins">>},
                          !.called = st.called \cup {"win"}]
  ELSE st

\* setSeed that keeps the running stream when the seed text is unchanged
setSeed_unchanged(st, str) ==
  IF SafeSeed(str) = st.rngSeedStr THEN st
  ELSE [st EXCEPT !.rngSeedStr = SafeSeed(str), !.rng = xfnv1a(SafeSeed(str))]

\* setSeed(str)
setSeed(st, str) ==
  [st EXCEPT !.rngSeedStr = SafeSeed(str), !.rng = xfnv1a(SafeSeed(str)),
             !.notices = @ \cup (IF Len(SafeSeed(str)) # Len(str)
                                 THEN {<<"truncated">>} ELSE {})]

\* initFromControls() followed by its updateStatsAndCharts()
InitWorld(st, seedStr, inputs, sizePx) ==
  Only({updateStatsAndCharts(
          [st EXCEPT !.entities = w.ents, !.ENTITY_ID = w.nextId, !.accumulator = 0,
                     !.rngSeedStr = w.seed, !.rng = w.a,
                     !.notices = @ \cup w.notices,
                     !.called = @ \cup {"initFromControls"},
                     !.tested = <<>>, !.resolved = <<>>, !.stepsDone = 0,
                     !.initCfg = [seed |-> seedStr, inputs |-> inputs, size |-> sizePx],
                     !.runCfg = NoRun]) :
          w \in {SpawnOf(seedStr, inputs, sizePx)}})

\* one step(dt) of the frame loop
StepOnce(st, dt, spd, wrap, cell, gw, gh) ==
  Only({LET cfg == [spd |-> spd, wrap |-> wrap, cell |-> cell, n |-> 1]
        IN [st EXCEPT !.entities = out.ents, !.WRAP_ACTIVE = wrap,
                      !.tested = out.tested, !.resolved = out.resolved,
                      !.stepsDone = @ + 1, !.called = @ \cup {"step"},
                      !.runCfg = IF st.runCfg = NoRun THEN cfg
                                 ELSE IF [st.runCfg EXCEPT !.n = 1] = cfg THEN st.runCfg
                                 ELSE [st.runCfg EXCEPT !.n = 2]] :
          out \in {step(st.entities, dt, spd, wrap, cell, gw, gh)}})

\* a frame loop that steps once by the whole time accumulated
StepLoop_wholeDelta(st, spd, wrap, cell, gw, gh) ==
  IF st.accumulator >= FIXED_DT
  THEN [StepOnce(st, st.accumulator, spd, wrap, cell, gw, gh) EXCEPT !.accumulator = 0]
  ELSE st

\* while (accumulator >= FIXED_DT) { step(FIXED_DT); accumulator -= FIXED_DT; }
RECURSIVE StepLoop(_, _, _, _, _, _)
StepLoop(st, spd, wrap, cell, gw, gh) ==
  IF st.accumulator >= FIXED_DT
  THEN Only({StepLoop([s1 EXCEPT !.accumulator = @ - FIXED_DT], spd, wrap, cell, gw, gh) :
               s1 \in {StepOnce(st, FIXED_DT, spd, wrap, cell, gw, gh)}})
  ELSE st

\* a frame that adds the whole wall-clock gap to the accumulator
FrameDelta_unclamped(d) == d

\* let dt = (now - lastTime) / 1000; if (dt > 0.1) dt = 0.1;
FrameDelta(d) == IF d > MAX_FRAME_DT THEN MAX_FRAME_DT ELSE d

\* frame() when now - lastTime is d
frame(st, d, spd, wrap, cell, gw, gh) ==
  Only({IF s2.running
        THEN [s2 EXCEPT !.animId = NewHandle(s2), !.pending = @ \cup {NewHandle(s2)}]
        ELSE s2 :
          s2 \in {[s1 EXCEPT !.framed = Append(@, [d |-> d, acc |-> st.accumulator,
                                                  steps |-> s1.stepsDone - st.stepsDone])] :
                    s1 \in {updateStatsAndCharts(
                              StepLoop([st EXCEPT !.accumulator = @ + FrameDelta(d)],
                                       spd, wrap, cell, gw, gh))}}})

\* a resume whose frame measures its delta from the last frame before the pause
ResumeDelta_sincePause(paused) == paused

\* lastTime = performance.now(); frame(): the delta that frame measures, whatever
\* time went by since the last frame
ResumeDelta(paused) == 0

\* startPauseToggle(), paused after the last frame
startPauseToggle(st, paused, seedStr, inputs, sizePx, spd, wrap, cell, gw, gh) ==
  IF ~st.running
  THEN Only({frame([s1 EXCEPT !.running = TRUE, !.called = @ \cup {"startPauseToggle"}],
                   ResumeDelta(paused), spd, wrap, cell, gw, gh) :
               s1 \in {IF Len(st.entities) = 0
                       THEN InitWorld(st, seedStr, inputs, sizePx) ELSE st}})
  ELSE [Cancel(st) EXCEPT !.running = FALSE, !.called = @ \cup {"startPauseToggle"}]

\* reset()
reset(st, seedStr, inputs, sizePx) ==
  Only({updateStatsAndCharts([Cancel(s1) EXCEPT !.running = FALSE, !.animId = NULL]) :
          s1 \in {InitWorld(st, seedStr, inputs, sizePx)}})

\* a clearAll that leaves the accumulator as it is
clearAll_keepsTime(st) ==
  updateStatsAndCharts(
    [Cancel(st) EXCEPT !.running = FALSE, !.animId = NULL, !.entities = <<>>,
                       !.called = @ \cup {"clearAll"},
                       !.tested = <<>>, !.resolved = <<>>, !.stepsDone = 0,
                       !.initCfg = NoInit, !.runCfg = NoRun])

\* clearAll()
clearAll(st) ==
  updateStatsAndCharts(
    [Cancel(st) EXCEPT !.running = FALSE, !.animId = NULL, !.entities = <<>>,
                       !.accumulator = 0, !.called = @ \cup {"clearAll"},
                       !.tested = <<>>, !.resolved = <<>>, !.stepsDone = 0,
                       !.initCfg = NoInit, !.runCfg = NoRun])

\* the state record written back to the variables
Write(result) ==
  \E st \in {result} :
  /\ entities' = st.entities
  /\ ENTITY_ID' = st.ENTITY_ID
  /\ rngSeedStr' = st.rngSeedStr
  /\ rng' = st.rng
  /\ running' = st.running
  /\ animId' = st.animId
  /\ accumulator' = st.accumulator
  /\ pending' = st.pending
  /\ WRAP_ACTIVE' = st.WRAP_ACTIVE
  /\ notices' = st.notices
  /\ called' = st.called
  /\ tested' = st.tested
  /\ resolved' = st.resolved
  /\ stepsDone' = st.stepsDone
  /\ initCfg' = st.initCfg
  /\ runCfg' = st.runCfg
  /\ framed' = st.framed

\* a handler of the page: no function is applied on its own
Commit(result) == Write(result) /\ UNCHANGED <<probe, answer>>

Wrap == wallMode = "wrap"

\* the steps a frame delivering d would execute
StepsIn(acc, d) == (acc + Min2(d, MAX_FRAME_DT)) \div FIXED_DT

(***************************************************************************)
(* The UI model: the page after load, then the handlers in any order.      *)
(***************************************************************************)
\* the script's top-level state before buildTypeUIAndInit
Blank ==
  [entities |-> <<>>, ENTITY_ID |-> 1, rngSeedStr |-> SeedOf(12345),
   rng |-> xfnv1a(SeedOf(12345)), running |-> FALSE, animId |-> NULL,
   accumulator |-> 0, pending |-> {}, WRAP_ACTIVE |-> FALSE, notices |-> {},
   called |-> {}, tested |-> <<>>, resolved |-> <<>>, stepsDone |-> 0,
   initCfg |-> NoInit, runCfg |-> NoRun, framed |-> <<>>]

\* the variables hold the state record
Holds(result) ==
  \E st \in {result} :
  /\ entities = st.entities
  /\ ENTITY_ID = st.ENTITY_ID
  /\ rngSeedStr = st.rngSeedStr
  /\ rng = st.rng
  /\ running = st.running
  /\ animId = st.animId
  /\ accumulator = st.accumulator
  /\ pending = st.pending
  /\ WRAP_ACTIVE = st.WRAP_ACTIVE
  /\ notices = st.notices
  /\ called = st.called
  /\ tested = st.tested
  /\ resolved = st.resolved
  /\ stepsDone = st.stepsDone
  /\ initCfg = st.initCfg
  /\ runCfg = st.runCfg
  /\ framed = st.framed
  /\ probe = <<>>
  /\ answer = <<>>

\* buildTypeUIAndInit with the controls as loaded
Loaded(seeds, counts, sizes, speeds, modes) ==
  /\ validateRules(beatsEntries) = NoError
  /\ seedInput \in seeds
  /\ typeInputs \in counts
  /\ size \in sizes
  /\ speed \in speeds
  /\ wallMode \in modes
  /\ CELL = CellFor(size * PX)
  /\ GW = GridDim(VIEW_W, CELL)
  /\ GH = GridDim(VIEW_H, CELL)
  /\ edits = 0
  /\ Holds(InitWorld(setSeed(Blank, seedInput), seedInput, typeInputs, size))

\* the counts in the type inputs when the page loads
LoadCounts == {<<2, 1, 0, 0, 0>>, <<0, 0, 0, 2, 0>>, <<0, 0, 0, 0, 0>>}

\* the page as loaded: one seed in the seed input, the sliders at their first
\* positions, bounce mode
Init == Loaded({SeedOf(2)}, LoadCounts, {8}, {1 * SU}, {"bounce"})

\* click on startBtn
StartPause ==
  \E paused \in Pauses :
    /\ Commit(startPauseToggle(State, paused, seedInput, typeInputs, size, speed, Wrap,
                                CELL, GW, GH))
    /\ UNCHANGED <<controls, gridVars, edits>>

\* the host runs the requested frame callback h, d after lastTime
Frame ==
  \E h \in pending, d \in Deltas :
    /\ stepsDone + StepsIn(accumulator, d) <= MaxSteps
    /\ Commit(frame([State EXCEPT !.pending = @ \ {h}], d, speed, Wrap, CELL, GW, GH))
    /\ UNCHANGED <<controls, gridVars, edits>>

\* click on resetBtn
Reset ==
  /\ Commit(reset(State, seedInput, typeInputs, size))
  /\ UNCHANGED <<controls, gridVars, edits>>

\* click on clearBtn
ClearAll ==
  /\ Commit(clearAll(State))
  /\ UNCHANGED <<controls, gridVars, edits>>

\* input on sizeEl: reset() unless running, then updateCellSize()
SizeInput ==
  \E v \in Sizes \ {size} :
    /\ edits < MaxEdits
    /\ edits' = edits + 1
    /\ size' = v
    /\ Commit(IF running THEN State ELSE reset(State, seedInput, typeInputs, v))
    /\ CELL' = CellFor(v * PX)
    /\ GW' = GridDim(VIEW_W, CellFor(v * PX))
    /\ GH' = GridDim(VIEW_H, CellFor(v * PX))
    /\ UNCHANGED <<seedInput, typeInputs, speed, wallMode>>

\* change on wallModeEl: reset() unless running
WallModeChange ==
  \E m \in WallModes \ {wallMode} :
    /\ edits < MaxEdits
    /\ edits' = edits + 1
    /\ wallMode' = m
    /\ Commit(IF running THEN State ELSE reset(State, seedInput, typeInputs, size))
    /\ UNCHANGED <<seedInput, typeInputs, size, speed, gridVars>>

\* input on speedEl
SpeedInput ==
  \E v \in Speeds \ {speed} :
    /\ edits < MaxEdits
    /\ edits' = edits + 1
    /\ speed' = v
    /\ Commit(State)
    /\ UNCHANGED <<seedInput, typeInputs, size, wallMode, gridVars>>

\* a seed typed into seedInput, then click on applySeedBtn
ApplySeed ==
  \E str \in Seeds :
    /\ edits < MaxEdits
    /\ edits' = edits + 1
    /\ seedInput' = str
    /\ Commit(setSeed(State, str))
    /\ UNCHANGED <<typeInputs, size, speed, wallMode, gridVars>>

Next ==
  \/ StartPause
  \/ Frame
  \/ Reset
  \/ ClearAll
  \/ SizeInput
  \/ WallModeChange
  \/ SpeedInput
  \/ ApplySeed

Spec == Init /\ [][Next]_vars

(***************************************************************************)
(* The stepping model: a spawned world advanced by step(FIXED_DT) calls.   *)
(***************************************************************************)
InitStep == Loaded(StepSeeds, CountConfigs, Sizes, Speeds, WallModes)

Step ==
  /\ stepsDone < MaxSteps
  /\ Commit(StepOnce(State, FIXED_DT, speed, Wrap, CELL, GW, GH))
  /\ UNCHANGED <<controls, gridVars, edits>>

SpecStep == InitStep /\ [][Step]_vars

(***************************************************************************)
(* Entities at the velocity cap.  Collisions between equal masses with     *)
(* REST = 1 exchange the normal components of the velocities, so an arena  *)
(* of two or three entities spawned at 40..120 px/s never comes near VMAX; *)
(* speeds of that order take the energy of 25 entities or more.  Here the  *)
(* arena holds a circle and a square already moving at VMAX, in any of     *)
(* eight directions, about to meet: the states from which clampVel has to  *)
(* keep the cap.                                                           *)
(***************************************************************************)
\* velocities of length VMAX (within 1/VU px/s), in 1/VU px/s
AtCap ==
  {<<VCap, 0>>, <<-VCap, 0>>, <<0, VCap>>, <<0, -VCap>>} \cup
  {<<sx * d, sy * d>> : sx \in {-1, 1}, sy \in {-1, 1},
                        d \in {ISqrt((VCap * VCap) \div 2)}}

\* where the square starts, relative to the circle, in px
Offsets == {<<17, 0>>, <<20, 6>>, <<12, 14>>}

\* the circle and the square, radius size px
FastPair(va, vb, off, sizePx) ==
  <<Entity(1, 1, 24 * PX, 24 * PX, sizePx * PX, va[1], va[2]),
    Entity(2, 2, (24 + off[1]) * PX, (24 + off[2]) * PX, sizePx * PX, vb[1], vb[2])>>

InitCap ==
  /\ seedInput = SeedOf(1)
  /\ typeInputs = <<1, 1, 0, 0, 0>>
  /\ size = 8
  /\ speed \in Speeds
  /\ wallMode \in WallModes
  /\ CELL = CellFor(size * PX)
  /\ GW = GridDim(VIEW_W, CELL)
  /\ GH = GridDim(VIEW_H, CELL)
  /\ edits = 0
  /\ \E va \in AtCap, vb \in AtCap, off \in Offsets :
       Holds(updateStatsAndCharts(
               [setSeed(Blank, seedInput) EXCEPT
                  !.entities = FastPair(va, vb, off, size), !.ENTITY_ID = 3]))

SpecCap == InitCap /\ [][Step]_vars

(***************************************************************************)
(* The running page: Start is clicked on the loaded page and the host      *)
(* keeps delivering the requested frames.  One circle and one square,      *)
(* radius 8, bounce mode, speed 1x.  With seed "rps-1146" the two fall     *)
(* into an orbit between the walls on which they never overlap; with the   *)
(* other seeds they meet within twenty steps.  stepsDone, a counter of the *)
(* model and no state of the page, stops at MaxSteps so that an endless    *)
(* run revisits its states.                                                *)
(***************************************************************************)
RunSeeds == {SeedOf(1), SeedOf(5), SeedOf(1146)}

InitRun == Loaded(RunSeeds, {<<1, 1, 0, 0, 0>>}, {8}, {1 * SU}, {"bounce"})

\* click on startBtn while the simulation is not running and undecided
RunStart ==
  /\ ~running
  /\ typesPresent(entities) > 1
  /\ \E paused \in Pauses :
       Commit(startPauseToggle(State, paused, seedInput, typeInputs, size, speed, Wrap,
                               CELL, GW, GH))
  /\ UNCHANGED <<controls, gridVars, edits>>

\* the host runs the requested frame callback h, d after lastTime
RunFrame ==
  \E h \in pending, d \in Deltas :
    /\ Commit([frame([State EXCEPT !.pending = @ \ {h}], d, speed, Wrap, CELL, GW, GH)
                 EXCEPT !.stepsDone = Min2(@, MaxSteps)])
    /\ UNCHANGED <<controls, gridVars, edits>>

NextRun == RunStart \/ RunFrame

\* the click happens and every requested frame is delivered
SpecRun == InitRun /\ [][NextRun]_vars /\ WF_vars(RunStart) /\ WF_vars(RunFrame)

(***************************************************************************)
(* Functions applied on their own: winnerOf, mod, and the stream rng that  *)
(* setSeed builds.  probe names the application, answer is what it         *)
(* returned; after setSeed, answer collects the values rng() returns.      *)
(***************************************************************************)
MaxDraws == 4     \* calls of rng() followed after a setSeed
MaxMod == 5       \* moduli 1 .. MaxMod
MaxModArg == 11   \* arguments -MaxModArg .. MaxModArg

InitPure == Loaded({SeedOf(1)}, CountConfigs, {8}, {1 * SU}, {"bounce"})

\* winnerOf(a, b)
Decide ==
  \E a \in TypeIds, b \in TypeIds :
    /\ probe' = <<"winnerOf", a, b>>
    /\ answer' = winnerOf(a, b)
    /\ UNCHANGED <<world, loop, controls, gridVars, ghosts>>

\* mod(n, m)
Reduce ==
  \E n \in (-MaxModArg)..MaxModArg, m \in 1..MaxMod :
    /\ probe' = <<"mod", n, m>>
    /\ answer' = mod(n, m)
    /\ UNCHANGED <<world, loop, controls, gridVars, ghosts>>

\* setSeed(str)
Reseed ==
  \E str \in Seeds :
    /\ Write(setSeed(State, str))
    /\ probe' = <<"setSeed", str>>
    /\ answer' = <<>>
    /\ UNCHANGED <<controls, gridVars, edits>>

\* rng()
DrawOne ==
  /\ probe # <<>> /\ probe[1] = "setSeed"
  /\ Len(answer) < MaxDraws
  /\ \E out \in {mulberry32(rng)} :
       /\ rng' = out.a
       /\ answer' = Append(answer, out.u)
  /\ UNCHANGED <<entities, ENTITY_ID, rngSeedStr, accumulator, WRAP_ACTIVE, loop,
                 controls, gridVars, ghosts, probe>>

NextPure == Decide \/ Reduce \/ Reseed \/ DrawOne

SpecPure == InitPure /\ [][NextPure]_vars

(***************************************************************************)
(* Functions applied once to arguments drawn from small sets, on the page  *)
(* as loaded: probe names the application and its arguments, answer is     *)
(* what it returned.                                                       *)
(***************************************************************************)
\* where the second entity of a pair lies relative to the first, in px:
\* on it, overlapping, at distance ra + rb exactly, just apart, far apart,
\* and overlapping only across the right edge in wrap mode
PairOffsets == {<<0, 0>>, <<10, 0>>, <<9, -9>>, <<16, 0>>, <<17, 0>>, <<12, 14>>, <<54, 0>>}

\* two entities of radius 8 px with types ta, tb, the second at off from the first
TypedPair(ta, tb, off) ==
  <<Entity(1, ta, 6 * PX, 24 * PX, 8 * PX, 600, -300),
    Entity(2, tb, (6 + off[1]) * PX, (24 + off[2]) * PX, 8 * PX, -450, 200)>>

\* narrowPhase(a, b)
Collide ==
  \E ta \in 1..Len(TypeRegistry), tb \in 1..Len(TypeRegistry),
     off \in PairOffsets, wrap \in BOOLEAN :
    /\ probe = <<>>
    /\ probe' = <<"narrowPhase", TypedPair(ta, tb, off), wrap>>
    /\ answer' = narrowPhase(TypedPair(ta, tb, off), 1, 2, VIEW_W, VIEW_H, wrap)
    /\ UNCHANGED <<world, loop, controls, gridVars, ghosts>>

MaxRules == 2     \* rules in a beats graph given to validateRules
MaxOuts == 1      \* targets of one rule

\* type ids a rule may name: two registered ones and one that is not
RuleNames == {"circle", "square", "ghost"}

\* the beats graphs of at most MaxRules rules with distinct keys
RuleGraphs ==
  {g \in UNION {[1..n -> [k : RuleNames,
                          outs : UNION {[1..m -> RuleNames] : m \in 0..MaxOuts}]] :
                  n \in 0..MaxRules} :
     \A i \in 1..Len(g), j \in 1..Len(g) : i # j => g[i].k # g[j].k}

\* validateRules() on a graph in place of the shipped one
Validate ==
  \E g \in RuleGraphs \cup {beatsEntries} :
    /\ probe = <<>>
    /\ probe' = <<"validateRules", g>>
    /\ answer' = validateRules(g)
    /\ UNCHANGED <<world, loop, controls, gridVars, ghosts>>

MaxSpawn == 2     \* entities one spawn call is asked for

\* spawn(typeIndex, n, radius) on the page as loaded
Spawn ==
  \E t \in 1..Len(TypeRegistry), n \in 0..MaxSpawn :
    /\ probe = <<>>
    /\ probe' = <<"spawn", t, n>>
    /\ answer' = spawn([ents |-> entities, nextId |-> ENTITY_ID, a |-> rng],
                       t, n, size * PX).ents
    /\ UNCHANGED <<world, loop, controls, gridVars, ghosts>>

\* counts a user may type into one type input
TypedCounts == {0, 200, 500, 10000}

\* counts typed into the five type inputs, each clamped by its input
\* listener, then initFromControls
Allot ==
  \E typed \in TypedCounts \X TypedCounts \X TypedCounts \X TypedCounts \X TypedCounts :
    /\ probe = <<>>
    /\ probe' = <<"counts", typed>>
    /\ answer' = Budget(<<clampInput(typed[1]), clampInput(typed[2]), clampInput(typed[3]),
                          clampInput(typed[4]), clampInput(typed[5])>>)
    /\ UNCHANGED <<world, loop, controls, gridVars, ghosts>>

\* the text str of n characters c
SeedChars(c, n) == [i \in 1..n |-> c]

\* seed texts around MAX_SEED_LEN characters: two that differ only in character
\* MAX_SEED_LEN + 1, one that differs from them in character MAX_SEED_LEN
LongSeeds ==
  {SeedChars(97, n) : n \in (MAX_SEED_LEN - 1)..(MAX_SEED_LEN + 2)}
    \cup {SeedChars(97, MAX_SEED_LEN) \o <<98>>,
          SeedChars(97, MAX_SEED_LEN - 1) \o <<98, 97>>,
          SeedOf(1), <<>>}

\* setSeed(str), then one rng()
Truncate ==
  \E str \in LongSeeds :
    /\ probe = <<>>
    /\ probe' = <<"setSeedLong", str>>
    /\ \E st \in {setSeed(State, str)} :
         \E out \in {mulberry32(st.rng)} :
           /\ Write([st EXCEPT !.rng = out.a])
           /\ answer' = out.u
    /\ UNCHANGED <<controls, gridVars, edits>>

\* a canvas of 110 x 100 px: five columns and rows of cells or fewer, the last
\* of them cut by the arena's edge
WideView == <<110 * PX, 100 * PX>>

\* the size slider when the entities were spawned and when the grid is built
SweepSizes == {8, 16}

\* centres of the first entity and offsets to the second, px
SweepAt == {1, 12, 25, 47, 60, 109} \X {3, 50, 99}
SweepOffsets == {-31, -15, 9, 15, 31, 33} \X {-15, 0, 15, 31}

\* a coordinate as update leaves it: wrapped, or kept off the walls
Kept(x, r, view, wrap) == IF wrap THEN mod(x, view) ELSE Max2(r, Min2(x, view - r))

SweepPair(at, off, r, wrap) ==
  <<Entity(1, 1, Kept(at[1] * PX, r, WideView[1], wrap),
           Kept(at[2] * PX, r, WideView[2], wrap), r, 0, 0),
    Entity(2, 2, Kept((at[1] + off[1]) * PX, r, WideView[1], wrap),
           Kept((at[2] + off[2]) * PX, r, WideView[2], wrap), r, 0, 0)>>

\* the broad phase of handleCollisionsGrid for two entities spawned at one size,
\* CELL set by updateCellSize for another
Sweep ==
  \E at \in SweepAt, off \in SweepOffsets, r \in SweepSizes, now \in SweepSizes,
     wrap \in BOOLEAN :
    /\ probe = <<>>
    /\ probe' = <<"handleCollisionsGrid", SweepPair(at, off, r * PX, wrap),
                  CellFor(now * PX), wrap>>
    /\ answer' = CandidatesOf(SweepPair(at, off, r * PX, wrap), CellFor(now * PX),
                              GridDim(WideView[1], CellFor(now * PX)),
                              GridDim(WideView[2], CellFor(now * PX)), wrap)
    /\ UNCHANGED <<world, loop, controls, gridVars, ghosts>>

NextApply == Collide \/ Validate \/ Spawn \/ Allot \/ Truncate \/ Sweep

InitApply == Loaded({SeedOf(1)}, {<<2, 1, 0, 0, 0>>}, {8}, {1 * SU}, {"bounce"})

SpecApply == InitApply /\ [][NextApply]_vars

(***************************************************************************)
(* Properties.                                                             *)
(***************************************************************************)
Ids(ents) == [i \in 1..Len(ents) |-> ents[i].id]

InArena(e, lox, hix, loy, hiy) ==
  /\ lox <= e.x /\ e.x <= hix
  /\ loy <= e.y /\ e.y <= hiy

NoRepeat(seq) == \A i, j \in 1..Len(seq) : i # j => seq[i] # seq[j]

\* C1: a handler that calls neither initFromControls nor clearAll leaves the
\* number of entities, and the entities' ids and radii, as they were: steps
\* only relabel types and move entities.
C1_CountKept ==
  [][called' \cap {"initFromControls", "clearAll"} = {}
       => /\ Len(entities') = Len(entities)
          /\ Ids(entities') = Ids(entities)]_vars

\* a step converted an entity and the three entities are still there
C1_Witness ==
  /\ "step" \in called
  /\ resolved # <<>>
  /\ Len(entities) = 3
  /\ typesPresent(entities) < Cardinality({i \in 1..5 : initCfg.inputs[i] > 0})

\* C2: within one handleCollisionsGrid no pair of entities passes the
\* overlap test of narrowPhase more than once.
C2_ResolvedOnce == NoRepeat(resolved)

\* C3: within one handleCollisionsGrid no pair of entities is passed to
\* narrowPhase more than once.
C3_TestedOnce == NoRepeat(tested)

\* C4: in bounce mode every entity lies within [r, width - r] x [r, height - r]
\* after a step.
C4_BounceContained ==
  (stepsDone > 0 /\ ~WRAP_ACTIVE) =>
    \A i \in 1..Len(entities) :
      InArena(entities[i], entities[i].r, VIEW_W - entities[i].r,
              entities[i].r, VIEW_H - entities[i].r)

\* the squared speed of an entity, in (1/VU px/s)^2
Speed2(e) == e.vx * e.vx + e.vy * e.vy

\* C6: after any step every entity's speed is at most VMAX.
C6_VelocityCap ==
  stepsDone > 0 => \A i \in 1..Len(entities) : Speed2(entities[i]) <= VCap * VCap

\* a collision left an entity with a velocity in a new direction whose length
\* is VMAX to within the rounding of the clamp
C6_Witness ==
  /\ stepsDone > 0
  /\ resolved # <<>>
  /\ \E i \in 1..Len(entities) :
       /\ <<entities[i].vx, entities[i].vy>> \notin AtCap
       /\ entities[i].vx # 0 /\ entities[i].vy # 0
       /\ Abs(entities[i].vx) # Abs(entities[i].vy)
       /\ Speed2(entities[i]) > (VCap - 3) * (VCap - 3)
       /\ Speed2(entities[i]) <= VCap * VCap

\* the types of the entities in ents
TypesOf(ents) == {TypeRegistry[ents[i].t] : i \in 1..Len(ents)}

\* no type in ents defeats another type in ents
Undecided(ents) == \A a \in TypesOf(ents), b \in TypesOf(ents) : winnerOf(a, b) = NoWinner

C5_WrapContained ==
  /\ (stepsDone > 0 /\ WRAP_ACTIVE) =>
       \A i \in 1..Len(entities) :
         InArena(entities[i], 0, VIEW_W - 1, 0, VIEW_H - 1)
  /\ \A n \in (-MaxModArg)..MaxModArg, m \in 1..MaxMod : mod(n, m) \in 0..(m - 1)

\* a wrap-mode step resolved a collision and left an entity across the seam
C5_Witness ==
  /\ stepsDone > 0 /\ WRAP_ACTIVE
  /\ resolved # <<>>
  /\ \E i \in 1..Len(entities) :
       \/ entities[i].x < entities[i].r \/ entities[i].x > VIEW_W - entities[i].r
       \/ entities[i].y < entities[i].r \/ entities[i].y > VIEW_H - entities[i].r

\* the entities after n calls of step(FIXED_DT) under the controls cfg
RECURSIVE RunSteps(_, _, _)
RunSteps(ents, n, cfg) ==
  IF n = 0 THEN ents
  ELSE Only({RunSteps(out.ents, n - 1, cfg) :
               out \in {step(ents, FIXED_DT, cfg.spd, cfg.wrap, cfg.cell,
                             GridDim(VIEW_W, cfg.cell), GridDim(VIEW_H, cfg.cell))}})

\* C8: the entity list after stepsDone steps under unchanged speed, wall mode
\* and cell size is the one a fresh run from the same seed, counts and size
\* reaches after as many step(FIXED_DT) calls, whatever frames delivered them.
C8_Deterministic ==
  (initCfg # NoInit /\ runCfg.n <= 1) =>
    entities = RunSteps(SpawnOf(initCfg.seed, initCfg.inputs, initCfg.size).ents,
                        stepsDone, runCfg)

\* three or more steps delivered by frames that left half a step in the
\* accumulator, with a collision in the last of them
C8_Witness ==
  /\ initCfg # NoInit /\ runCfg.n = 1
  /\ stepsDone >= 3
  /\ accumulator = 5
  /\ resolved # <<>>

\* the first n values of a stream built as mulberry32(a)
RECURSIVE Outputs(_, _)
Outputs(a, n) ==
  IF n = 0 THEN <<>>
  ELSE Only({<<out.u>> \o Outputs(out.a, n - 1) : out \in {mulberry32(a)}})

\* C9: the values rng() returned since setSeed(S) are the first values of a
\* stream built afresh as mulberry32(xfnv1a(S)), however many values were
\* drawn before that setSeed.
C9_StreamRestarts ==
  (probe # <<>> /\ probe[1] = "setSeed") =>
    /\ rngSeedStr = probe[2]
    /\ answer = Outputs(xfnv1a(probe[2]), Len(answer))

\* setSeed with the seed the page was loaded with, then MaxDraws values
C9_Witness ==
  /\ probe = <<"setSeed", SeedOf(1)>>
  /\ Len(answer) = MaxDraws

\* C10: winnerOf(a, b) is no winner for a = b, a when a's defeat-set holds b,
\* else b when b's defeat-set holds a, else no winner; and it is the same
\* for (b, a).
C10_WinnerOf ==
  (probe # <<>> /\ probe[1] = "winnerOf") =>
    LET a == probe[2]
        b == probe[3]
    IN /\ answer = (IF a = b THEN NoWinner
                    ELSE IF b \in beats[a] THEN a
                    ELSE IF a \in beats[b] THEN b
                    ELSE NoWinner)
       /\ answer = winnerOf(b, a)

\* the second argument wins
C10_Witness == probe = <<"winnerOf", "circle", "square">> /\ answer = "square"

\* the squared distance narrowPhase measures between a and b exceeds
\* (ra + rb)^2; an offset longer than ra + rb on one axis decides it without
\* squaring
Farther(a, b, wrap) ==
  LET dx == periodicDelta(a.x, b.x, VIEW_W, wrap)
      dy == periodicDelta(a.y, b.y, VIEW_H, wrap)
  IN \/ Abs(dx) > a.r + b.r
     \/ Abs(dy) > a.r + b.r
     \/ dx * dx + dy * dy > (a.r + b.r) * (a.r + b.r)

\* C11: narrowPhase leaves a pair farther apart than ra + rb as it is; of an
\* overlapping pair it gives both entities the type that defeats the other,
\* changes no type when the types are equal, and never changes an id, a radius
\* or a mass.
C11_NarrowPhaseTypes ==
  (probe # <<>> /\ probe[1] = "narrowPhase") =>
    LET a == probe[2][1]
        b == probe[2][2]
        aId == TypeRegistry[a.t]
        bId == TypeRegistry[b.t]
    IN /\ Len(answer) = 2
       /\ \A k \in 1..2 : /\ answer[k].id = probe[2][k].id
                          /\ answer[k].r = probe[2][k].r
                          /\ answer[k].mass = probe[2][k].mass
       /\ IF Farther(a, b, probe[3])
          THEN answer = probe[2]
          ELSE IF aId # bId /\ bId \in beats[aId]
               THEN answer[1].t = a.t /\ answer[2].t = a.t
               ELSE IF aId # bId /\ aId \in beats[bId]
                    THEN answer[1].t = b.t /\ answer[2].t = b.t
                    ELSE answer[1].t = a.t /\ answer[2].t = b.t

\* a circle overlapping a square: both come out squares, pushed apart
C11_Witness ==
  /\ probe # <<>> /\ probe[1] = "narrowPhase"
  /\ probe[2][1].t = 1 /\ probe[2][2].t = 2
  /\ answer[1].t = 2 /\ answer[2].t = 2
  /\ answer[1].x < probe[2][1].x
  /\ answer[2].x > probe[2][2].x

\* the graph g breaks a rule of the beats graph
Violates(g) ==
  \E i \in 1..Len(g) :
    \/ g[i].k \notin TypeIds
    \/ \E j \in 1..Len(g[i].outs) :
         LET b == g[i].outs[j]
         IN \/ b \notin TypeIds
            \/ b = g[i].k
            \/ \E i2 \in 1..Len(g) :
                 g[i2].k = b /\ \E j2 \in 1..Len(g[i2].outs) : g[i2].outs[j2] = g[i].k

\* C12: validateRules throws exactly on a graph with a key or target that is
\* no registered type id, a type that beats itself, or two types that beat
\* each other; and the page holds entities only after it passed on the
\* shipped graph.
C12_ValidateRules ==
  /\ (probe # <<>> /\ probe[1] = "validateRules") =>
       ((answer # NoError) <=> Violates(probe[2]))
  /\ (entities # <<>> \/ stepsDone > 0) => ~Violates(beatsEntries)

\* circle beats square and square beats circle: the conflict is thrown
C12_Witness ==
  /\ probe # <<>> /\ probe[1] = "validateRules"
  /\ Len(probe[2]) = 2
  /\ probe[2][1] = [k |-> "circle", outs |-> <<"square">>]
  /\ probe[2][2] = [k |-> "square", outs |-> <<"circle">>]
  /\ answer = "conflict"

\* C13: in the shipped beats graph no type beats itself, no two types beat
\* each other, every type beats exactly two others, the pairs are those of the
\* README and of the entries validateRules reads, and every entity's type has
\* its rule.
C13_BeatsGraph ==
  /\ DOMAIN beats = TypeIds
  /\ \A i \in 1..Len(entities) : TypeRegistry[entities[i].t] \in DOMAIN beats
  /\ \A a \in TypeIds :
       /\ a \notin beats[a]
       /\ beats[a] \subseteq TypeIds
       /\ Cardinality(beats[a]) = 2
       /\ \A b \in TypeIds \ {a} : ~(b \in beats[a] /\ a \in beats[b])
  /\ {<<a, b>> \in TypeIds \X TypeIds : b \in beats[a]} = ReadmeRules
  /\ \A a \in TypeIds, b \in TypeIds : (b \in beats[a]) <=> MapHas(beatsEntries, a, b)

\* the graph decides spock against circle for spock, whichever comes first
C13_Witness ==
  /\ probe = <<"winnerOf", "circle", "spock">>
  /\ answer = "spock"
  /\ "circle" \in beats["spock"] /\ "spock" \notin beats["circle"]

\* C14: spawn(typeIndex, n, radius) appends min(n, MAX_ENTITIES_PER_TYPE)
\* entities of the type, with ids no entity has, to the entities it found, which
\* it leaves as they were; asked for 10000 its loop runs 500 times.
C14_SpawnCount ==
  /\ (probe # <<>> /\ probe[1] = "spawn") =>
       LET n == probe[3]
           k == IF n < MAX_ENTITIES_PER_TYPE THEN n ELSE MAX_ENTITIES_PER_TYPE
       IN /\ Len(answer) = Len(entities) + k
          /\ SubSeq(answer, 1, Len(entities)) = entities
          /\ \A i \in (Len(entities) + 1)..Len(answer) : answer[i].t = probe[2]
          /\ NoRepeat(Ids(answer))
  /\ \A n \in {0, 1, 499, 500, 501, 10000} :
       SpawnCount(n) = IF n < 500 THEN n ELSE 500

\* two squares added to the two circles and the square of the loaded page
C14_Witness ==
  /\ probe = <<"spawn", 2, 2>>
  /\ Len(entities) = 3
  /\ Len(answer) = 5
  /\ answer[4].id = 4 /\ answer[5].id = 5

\* the sum of the first n elements of seq
RECURSIVE SumTo(_, _)
SumTo(seq, n) == IF n = 0 THEN 0 ELSE SumTo(seq, n - 1) + seq[n]

\* C15: initFromControls asks spawn, type after type, for min(requested,
\* MAX_ENTITIES_PER_TYPE, MAX_TOTAL_ENTITIES - asked so far) entities, at most
\* MAX_TOTAL_ENTITIES in all, and the loaded page holds what was asked for.
C15_TotalCap ==
  /\ Len(entities) <= MAX_TOTAL_ENTITIES
  /\ probe = <<>> => \A i \in 1..Len(TypeRegistry) :
                       computeCounts(entities)[i] = Budget(typeInputs).can[i]
  /\ (probe # <<>> /\ probe[1] = "counts") =>
       /\ Len(answer.can) = Len(TypeRegistry)
       /\ SumTo(answer.can, Len(answer.can)) <= 1200
       /\ \A i \in 1..Len(answer.can) :
            answer.can[i] = Min2(probe[2][i], Min2(500, 1200 - SumTo(answer.can, i - 1)))

\* 500 asked of every type: 500 circles, 500 squares, 200 triangles, no more
C15_Witness ==
  /\ probe = <<"counts", <<500, 500, 500, 500, 500>>>>
  /\ answer.can = <<500, 500, 200, 0, 0>>

\* C16 as stated: a type is named in a capping notice exactly when fewer
\* entities of it are spawned than were requested.
C16_CappedNoticed ==
  (probe # <<>> /\ probe[1] = "counts") =>
    \A i \in 1..Len(TypeRegistry) :
      (answer.can[i] < probe[2][i]) <=> (TypeRegistry[i] \in answer.capped)


(***************************************************************************)
(* C17: after every frame() the accumulator is at least 0 and less than    *)
(* FIXED_DT; a frame that finds acc in the accumulator and measures the    *)
(* wall-clock gap d executes (acc + min(d, MAX_FRAME_DT)) div FIXED_DT     *)
(* steps, leaves the remainder in the accumulator, and so executes at most *)
(* 6 steps however long the gap was.                                       *)
(***************************************************************************)
C17_FrameAccumulator ==
  /\ 0 <= accumulator /\ accumulator < FIXED_DT
  /\ \A k \in 1..Len(framed) :
       LET f == framed[k]
           dt == Min2(f.d, MAX_FRAME_DT)
       IN /\ f.steps = (f.acc + dt) \div FIXED_DT
          /\ f.steps <= 6
          /\ k = Len(framed) => accumulator = f.acc + dt - f.steps * FIXED_DT

\* a frame after a stall: 5 in the accumulator, a gap of 70, six steps, 5 left
C17_Witness ==
  /\ framed = <<[d |-> 70, acc |-> 5, steps |-> 6]>>
  /\ accumulator = 5
  /\ stepsDone = 6


(***************************************************************************)
(* C18: startPauseToggle while running executes no step, leaves the entity *)
(* list and the accumulator as they are and leaves no frame requested, and *)
(* nothing steps while the simulation is not running.  startPauseToggle    *)
(* while not running, with entities in the arena, leaves the entity list   *)
(* and the accumulator as they were at the pause: its frame measures a     *)
(* delta of 0 whatever time was spent paused, executes no step, and        *)
(* requests the next frame unless one type is alone in the arena.          *)
(***************************************************************************)
C18_PauseResume ==
  [][/\ ~running' => pending' = {}
     /\ (running /\ "startPauseToggle" \in called') =>
          /\ ~running'
          /\ entities' = entities /\ accumulator' = accumulator
          /\ stepsDone' = stepsDone /\ "step" \notin called' /\ framed' = <<>>
     /\ (~running /\ entities # <<>> /\ "startPauseToggle" \in called') =>
          /\ entities' = entities /\ accumulator' = accumulator
          /\ stepsDone' = stepsDone /\ "step" \notin called'
          /\ framed' = <<[d |-> 0, acc |-> accumulator, steps |-> 0]>>
          /\ "initFromControls" \notin called'
          /\ running' = (typesPresent(entities) > 1)
          /\ running' => Cardinality(pending') = 1]_vars

\* resumed with part of a fixed step in the accumulator, after steps were executed
C18_Witness ==
  /\ called = {"startPauseToggle"}
  /\ running /\ pending # {}
  /\ accumulator = 5
  /\ stepsDone > 0
  /\ framed = <<[d |-> 0, acc |-> 5, steps |-> 0]>>


(***************************************************************************)
(* C19: clearAll empties the entity list, sets the accumulator to 0 and    *)
(* stops the run (not running, no frame requested), and leaves the seed    *)
(* string, the state of the random stream, the wall mode, the grid         *)
(* dimensions that follow from the arena size, the grid cell size and the  *)
(* other controls as they are.                                             *)
(***************************************************************************)
C19_ClearAll ==
  []["clearAll" \in called' =>
       /\ entities' = <<>>
       /\ accumulator' = 0
       /\ ~running' /\ animId' = NULL /\ pending' = {}
       /\ "step" \notin called' /\ "initFromControls" \notin called'
       /\ UNCHANGED <<rngSeedStr, rng, wallMode, WRAP_ACTIVE, CELL, GW, GH>>
       /\ UNCHANGED <<seedInput, typeInputs, size, speed>>]_vars

\* cleared in wrap mode, with the random stream where the spawning left it
C19_Witness ==
  /\ called = {"clearAll"}
  /\ entities = <<>> /\ accumulator = 0 /\ ~running /\ pending = {}
  /\ wallMode = "wrap"
  /\ rngSeedStr = SeedOf(2)
  /\ rng # xfnv1a(rngSeedStr)


\* the first n characters of str, all of str when it has fewer
Prefix(str, n) == [i \in 1..Min2(Len(str), n) |-> str[i]]

(***************************************************************************)
(* C20: after setSeed(s) the effective seed is the first                   *)
(* min(Len(s), MAX_SEED_LEN) characters of s and the stream is the one     *)
(* seeded from them, so every seed with the same first MAX_SEED_LEN        *)
(* characters gives the same stream; the truncation notice is issued       *)
(* exactly when s is longer than MAX_SEED_LEN.                             *)
(***************************************************************************)
C20_SeedTruncated ==
  (probe # <<>> /\ probe[1] = "setSeedLong") =>
    LET s == probe[2]
    IN /\ Len(rngSeedStr) = Min2(Len(s), 128)
       /\ \A i \in 1..Len(rngSeedStr) : rngSeedStr[i] = s[i]
       /\ MAX_SEED_LEN = 128
       /\ rng = mulberry32(xfnv1a(rngSeedStr)).a
       /\ \A t \in LongSeeds :
            Prefix(t, 128) = Prefix(s, 128) =>
              answer = mulberry32(xfnv1a(Prefix(t, 128))).u
       /\ (<<"truncated">> \in notices) <=> (Len(s) > 128)

\* a seed of 129 characters, cut to 128
C20_Witness ==
  /\ probe = <<"setSeedLong", SeedChars(97, 128) \o <<98>>>>
  /\ rngSeedStr = SeedChars(97, 128)
  /\ <<"truncated">> \in notices


\* the centres of a and b are at least ra + rb apart, measured without wrapping
Clear(a, b) ==
  \/ Abs(b.x - a.x) >= a.r + b.r
  \/ Abs(b.y - a.y) >= a.r + b.r
  \/ (b.x - a.x) * (b.x - a.x) + (b.y - a.y) * (b.y - a.y) >= (a.r + b.r) * (a.r + b.r)

(***************************************************************************)
(* C21: in bounce mode narrowPhase leaves the centres of a pair that       *)
(* overlapped at least ra + rb apart, the two entities moved by opposite   *)
(* displacements, also when the two centres coincide.                      *)
(***************************************************************************)
C21_Separated ==
  (probe # <<>> /\ probe[1] = "narrowPhase" /\ ~probe[3]
     /\ ~Farther(probe[2][1], probe[2][2], FALSE)) =>
    /\ Clear(answer[1], answer[2])
    /\ answer[1].x - probe[2][1].x = probe[2][2].x - answer[2].x
    /\ answer[1].y - probe[2][1].y = probe[2][2].y - answer[2].y


\* the cells of one axis that hold an entity whose box covers lo..hi
CellsOf(lo, hi, cell, n, wrap) ==
  {IF wrap THEN mod(ix, n) ELSE clampIdx(ix, n - 1) : ix \in (lo \div cell)..(hi \div cell)}

\* two cell indices are equal or neighbours, round the seam when wrapping
Near(c, d, n, wrap) ==
  \E k \in {-1, 0, 1} : d = (IF wrap THEN mod(c + k, n) ELSE c + k)

(***************************************************************************)
(* C22: a pair of entities that overlaps when the grid is built (distance  *)
(* at most ra + rb, measured the short way round in wrap mode) lies in one *)
(* bucket or in neighbouring buckets and is passed to narrowPhase, for     *)
(* each cell size updateCellSize sets while the entities keep the radius   *)
(* they were spawned with.                                                 *)
(***************************************************************************)
C22_BroadPhaseComplete ==
  (probe # <<>> /\ probe[1] = "handleCollisionsGrid"
     /\ Overlapping(probe[2], 1, 2, WideView[1], WideView[2], probe[4])) =>
    LET a == probe[2][1]
        b == probe[2][2]
        cell == probe[3]
        gw == GridDim(WideView[1], cell)
        gh == GridDim(WideView[2], cell)
    IN /\ \E k \in 1..Len(answer) : answer[k] = <<1, 2>>
       /\ \E ax \in CellsOf(a.x - a.r, a.x + a.r, cell, gw, probe[4]),
             bx \in CellsOf(b.x - b.r, b.x + b.r, cell, gw, probe[4]) :
            Near(ax, bx, gw, probe[4])
       /\ \E ay \in CellsOf(a.y - a.r, a.y + a.r, cell, gh, probe[4]),
             by \in CellsOf(b.y - b.r, b.y + b.r, cell, gh, probe[4]) :
            Near(ay, by, gh, probe[4])

\* radius 16 in cells of 24 px, wrap mode: an overlapping pair across the seam,
\* the second entity only in the cut last column
C22_Witness ==
  /\ probe # <<>> /\ probe[1] = "handleCollisionsGrid"
  /\ probe[4] /\ probe[3] = 24 * PX
  /\ probe[2][1].r = 16 * PX
  /\ probe[2][1].x < probe[2][1].r
  /\ probe[2][2].x > WideView[1] - probe[2][2].r
  /\ Overlapping(probe[2], 1, 2, WideView[1], WideView[2], TRUE)
  /\ \E k \in 1..Len(answer) : answer[k] = <<1, 2>>


(***************************************************************************)
(* C23: the win detection fires only in a running simulation whose         *)
(* non-empty entity list holds one type; it leaves the simulation not      *)
(* running with no frame requested, so that nothing steps until            *)
(* startPauseToggle; no handler leaves the simulation running with         *)
(* entities of a single type, and a handler that leaves several types or   *)
(* no entity does not report a win.                                        *)
(***************************************************************************)
C23_WinStops ==
  [][/\ "win" \in called' =>
          /\ entities' # <<>> /\ typesPresent(entities') = 1
          /\ <<"wins">> \in notices'
          /\ ~running' /\ animId' = NULL /\ pending' = {}
     /\ (entities' = <<>> \/ typesPresent(entities') > 1) => "win" \notin called'
     /\ running' => (entities' = <<>> \/ typesPresent(entities') > 1)
     /\ ~running => "step" \notin called']_vars

\* a frame whose steps convert the last entity of another type: a win, nothing
\* requested
C23_Witness ==
  /\ "win" \in called /\ "step" \in called
  /\ Len(entities) = 3 /\ typesPresent(entities) = 1
  /\ ~running /\ pending = {}


(***************************************************************************)
(* C24: a step gives no type a positive count that had none, and moves no  *)
(* count at all once a single type is left; it changes the type of an      *)
(* entity only to a type another entity had before the step, and keeps the *)
(* number of entities.                                                     *)
(***************************************************************************)
C24_ExtinctionPermanent ==
  [][/\ Len(entities') = Len(entities)
     /\ \A t \in 1..Len(TypeRegistry) :
          computeCounts(entities)[t] = 0 => computeCounts(entities')[t] = 0
     /\ \A i \in 1..Len(entities) :
          entities'[i].t # entities[i].t =>
            \E j \in 1..Len(entities) : j # i /\ entities[j].t = entities'[i].t
     /\ typesPresent(entities) = 1 =>
          computeCounts(entities') = computeCounts(entities)]_vars

\* circles and a square spawned, squares only after some steps, and stepped again
C24_Witness ==
  /\ computeCounts(entities) = <<0, 3, 0, 0, 0>>
  /\ initCfg.inputs = <<2, 1, 0, 0, 0>>
  /\ "step" \in called
  /\ resolved = <<>>


(***************************************************************************)
(* C25: between any two events at most one frame callback is requested,    *)
(* one is requested exactly when the simulation is running, and it is the  *)
(* one animId names; a handler executes steps in one frame() only, and     *)
(* none in a handler that ran initFromControls or clearAll.                 *)
(***************************************************************************)
C25_OneFrameLoop ==
  /\ Cardinality(pending) <= 1
  /\ running <=> pending # {}
  /\ running => pending = {animId}
  /\ Len(framed) <= 1
  /\ "step" \in called =>
       /\ Len(framed) = 1 /\ framed[1].steps > 0
       /\ "initFromControls" \notin called /\ "clearAll" \notin called

\* running again after a pause, steps executed by the one frame requested
C25_Witness ==
  /\ running /\ pending = {animId} /\ animId = 2
  /\ "step" \in called
  /\ framed[1].steps = 6

=============================================================================
